---- MODULE Spec2Model ----
(***************************************************************************)
(* Polyphonic SubtractiveEngine of synthualizer (src/unnamed/part_012):    *)
(* the voice pool, the frequency -> voice index (activeNotes), the        *)
(* release timers started by triggerRelease, and the engine parameters.    *)
(*                                                                         *)
(* Time.  audioContext.currentTime is the variable now, counted in ticks   *)
(* of TickMs milliseconds (one tick is the delay of a release timer under  *)
(* the default releaseTime); every stored time and duration is an integer  *)
(* number of milliseconds (attackTime = 10 is the source's 0.01 s).        *)
(* A release timer is a record [voice, due]: window.setTimeout callbacks   *)
(* close over the Voice object only, and run no earlier than their delay.  *)
(*                                                                         *)
(* Gain.  A Voice's gain.gain is the sequence of automation events the     *)
(* engine scheduled on it (setValueAtTime, linear and exponential ramps),  *)
(* with gains as integers in units of 0.0001; its GainNode also records    *)
(* the generators connected to it.                                         *)
(*                                                                         *)
(* Specifications.  Spec plays notes over two clock values; SpecSettings   *)
(* and SpecAdsr add the parameter updates; SpecEnvelope plays one note     *)
(* under envelope times long enough for the clock to stop inside a ramp.   *)
(***************************************************************************)
EXTENDS Integers, FiniteSets, Sequences, Bags, TLC

\* ------------------------------------------------------------------ bounds
\* Size of the voice pool.  The source sets MAX_VOICES = 6
\* (src/unnamed/part_012:40); the pool is scaled down here, every operation
\* below is written for an arbitrary pool size.
MAX_VOICES == 2
\* Number of distinct note frequencies the caller may pass.
NumFreqs == 3
\* Last value of the audio clock, in ticks.
MaxTime == 1
\* Largest number of release timers pending at once.
MaxTimers == 2
\* noteOn calls counted for one key while it stays down.
MaxNoteOns == 2
\* Oscillators the monophonic engine creates in one run.
MaxOscillators == 3

\* --------------------------------------------------------------- constants
TimerSlackMs == 100
DefaultAttackMs == 10
DefaultDecayMs == 100
DefaultSustainPct == 70
DefaultReleaseMs == 300
DefaultCutoff == 1000
DefaultQ == 1
MaxAttackDecayMs == 2000
MaxReleaseMs == 5000
MaxSustainPct == 100
\* Gains are integers in units of 0.0001, velocities in percent:
\* (velocity * 0.5) is velocity * PeakScale in these units.
PeakScale == 50
\* 0.001, the floor of the sustain gain and the target of the release ramp.
MinGain == 10
\* 0.01, the least sustain gain that is reached by an exponential ramp.
ExpThreshold == 100
\* 0.001 s, the decay time at or below which no decay ramp is scheduled.
DecayEpsMs == 1
\* 1.0, the gain of the mixer and of the master output.
UnityGain == 10000
\* The octave the store starts with.
DefaultOctave == 2
\* attackTime of a new FMEngine, in ms.
FmAttackMs == 50
TickMs == DefaultReleaseMs + TimerSlackMs

Null == 0
NoVoice == -1
VoiceIds == 0 .. (MAX_VOICES - 1)
Freqs == 1 .. NumFreqs
Velocities == {100}
NullOsc == [type |-> "null", frequency |-> Null]
\* A Voice's GainNode: the automation events scheduled on gain.gain, the
\* running generators connected to the node, and a summary of the last curve
\* scheduled (kind, the end of its first ramp, the velocity of an attack).
SilentGain == [kind |-> "none", end |-> 0, vel |-> 0,
               events |-> << >>, inputs |-> {}]

VARIABLES
    voices,          \* voice id -> Voice record
    activeNotes,     \* Map frequency -> voice id
    timers,          \* bag of pending release timers [voice, due]
    now,             \* audioContext.currentTime, in ticks
    currentWaveform,
    attackTime, decayTime, sustainLevel, releaseTime,
    filterNode,      \* [type, frequency, Q] of the shared filter
    sharedGains,     \* gain.value of the mixer and of the master output
    store,           \* the state of useSynthStore
    hook,            \* the refs and the captured octave of useKeyboardInput
    keyboard,        \* the keys that are physically down, and the noteOn
                     \* calls the hook made for each key since it went down
    mono,            \* the monophonic SubtractiveEngine, in detail
    last             \* the operation that produced this state

vars == <<voices, activeNotes, timers, now, currentWaveform, attackTime,
          decayTime, sustainLevel, releaseTime, filterNode, sharedGains,
          store, hook, keyboard, mono, last>>

NowMs == now * TickMs

\* ------------------------------------------------------------ construction
createVoice(id) ==
    [id |-> id, active |-> FALSE, frequency |-> Null, noteStartTime |-> 0,
     oscillator |-> NullOsc, voiceGain |-> SilentGain]

NoOp == [op |-> "init", f |-> Null, v |-> NoVoice, kind |-> "none"]

\* useSynthStore before any action: no engine instance, nothing playing.
NoEngine ==
    [type |-> "null", isPlaying |-> FALSE, frequency |-> Null,
     connected |-> FALSE]
StoreInit ==
    [engineType |-> "subtractive", engine |-> NoEngine, isPlaying |-> FALSE,
     currentNote |-> Null, activeFrequency |-> Null, octave |-> DefaultOctave,
     waveform |-> "sawtooth", cutoff |-> DefaultCutoff,
     resonance |-> DefaultQ, filterType |-> "lowpass",
     attack |-> DefaultAttackMs, decay |-> DefaultDecayMs,
     sustain |-> DefaultSustainPct, release |-> DefaultReleaseMs]

\* useKeyboardInput after its first effect run: listeners attached, the
\* refs empty, the octave of the store captured.
HookInit ==
    [mounted |-> TRUE, octave |-> DefaultOctave, pressedKeys |-> {},
     sustainedNotes |-> {}, shiftHeld |-> FALSE]

\* A new monophonic SubtractiveEngine: no oscillator, no cleanup timer.
\* oscs lists the oscillators it has created, timers the pending cleanup
\* timers [osc, due]; the ids count from 1 and 0 stands for null.
MonoInit ==
    [oscillator |-> 0, isPlaying |-> FALSE, cleanupTimeoutId |-> 0,
     oscs |-> << >>, timers |-> {}]

Init ==
    /\ voices = [i \in VoiceIds |-> createVoice(i)]
    /\ activeNotes = << >>
    /\ timers = EmptyBag
    /\ now = 0
    /\ currentWaveform = "sawtooth"
    /\ attackTime = DefaultAttackMs
    /\ decayTime = DefaultDecayMs
    /\ sustainLevel = DefaultSustainPct
    /\ releaseTime = DefaultReleaseMs
    /\ filterNode = [type |-> "lowpass", frequency |-> DefaultCutoff, Q |-> DefaultQ]
    /\ sharedGains = [mixer |-> UnityGain, masterGain |-> UnityGain]
    /\ store = StoreInit
    /\ hook = HookInit
    /\ keyboard = [down |-> {}, noteOns |-> [k \in {"z", ",", "q"} |-> 0],
                   sounding |-> {}]
    /\ mono = MonoInit
    /\ last = NoOp

\* The engine fields the note operations read and write, as one value.
Engine == [voices |-> voices, activeNotes |-> activeNotes, timers |-> timers]

\* ----------------------------------------------------------------- helpers
MapDelete(m, k) == [x \in (DOMAIN m) \ {k} |-> m[x]]
MapSet(m, k, val) == [x \in (DOMAIN m) \cup {k} |-> IF x = k THEN val ELSE m[x]]

Max(a, b) == IF a >= b THEN a ELSE b
Min(a, b) == IF a <= b THEN a ELSE b

\* ---- AudioParam automation of a Voice's gain.gain.  The events of a param
\* are a sequence ordered by time; every call below is made with a time that
\* is not before the events the preceding cancelScheduledValues(now) kept.
cancelScheduledValues(events, t) == SelectSeq(events, LAMBDA e : e.time < t)
setValueAtTime(events, value, t) ==
    Append(events, [type |-> "set", value |-> value, time |-> t])
linearRampToValueAtTime(events, value, t) ==
    Append(events, [type |-> "lin", value |-> value, time |-> t])
exponentialRampToValueAtTime(events, value, t) ==
    Append(events, [type |-> "exp", value |-> value, time |-> t])

\* Integer square root of n, searched in lo .. hi.
RECURSIVE ISqrt(_, _, _)
ISqrt(n, lo, hi) ==
    IF lo >= hi THEN lo
    ELSE LET mid == (lo + hi + 1) \div 2
         IN IF mid * mid <= n THEN ISqrt(n, mid, hi) ELSE ISqrt(n, lo, mid - 1)

\* v0 * (v1 / v0) ^ (num / den) for 0 < v0, v1, in integers: the geometric
\* mean halves the ramp, the binary digits of num / den choose the halves.
RECURSIVE ExpCurve(_, _, _, _)
ExpCurve(v0, v1, num, den) ==
    IF num <= 0 \/ v0 = v1 THEN v0
    ELSE IF num >= den THEN v1
    ELSE LET mid == ISqrt(v0 * v1, Min(v0, v1), Max(v0, v1))
         IN IF 2 * num < den
            THEN IF mid = v0 THEN v0 ELSE ExpCurve(v0, mid, 2 * num, den)
            ELSE IF mid = v1 THEN v1 ELSE ExpCurve(mid, v1, 2 * num - den, den)

\* The value at time t of a ramp e that starts from v0 at time t0 < e.time.
\* An exponential ramp from 0 holds 0.
RampValue(e, v0, t0, t) ==
    IF e.type = "lin"
    THEN v0 + ((e.value - v0) * (t - t0)) \div (e.time - t0)
    ELSE IF v0 <= 0 THEN v0 ELSE ExpCurve(v0, e.value, t - t0, e.time - t0)

\* gain.value at time t under the scheduled events (0 before any event).
ValueAt(events, t) ==
    LET k == Cardinality({i \in 1 .. Len(events) : events[i].time <= t})
        v0 == IF k = 0 THEN 0 ELSE events[k].value
        t0 == IF k = 0 THEN 0 ELSE events[k].time
    IN IF k < Len(events) /\ events[k + 1].type # "set"
       THEN RampValue(events[k + 1], v0, t0, t)
       ELSE v0

\* startVoiceOscillator that leaves the new generator on the waveform the
\* engine was constructed with.
startVoiceOscillatorInitialType(E, v, frequency) ==
    LET osc == [type |-> "sawtooth", frequency |-> frequency]
    IN [E EXCEPT !.voices[v].oscillator = osc,
                 !.voices[v].voiceGain.inputs = @ \cup {osc}]

startVoiceOscillator(E, v, frequency) ==
    LET osc == [type |-> currentWaveform, frequency |-> frequency]
    IN [E EXCEPT !.voices[v].oscillator = osc,
                 !.voices[v].voiceGain.inputs = @ \cup {osc}]

\* oscillator.stop(when) followed at once by oscillator.disconnect(): the
\* generator leaves the graph now, whatever the stop time.
stopVoiceOscillator(E, v) ==
    IF E.voices[v].oscillator = NullOsc THEN E
    ELSE [E EXCEPT !.voices[v].voiceGain.inputs = @ \ {E.voices[v].oscillator},
                   !.voices[v].oscillator = NullOsc]

peakGainOf(velocity) == (velocity * PeakScale) \div MAX_VOICES

\* The sustain gain without its floor.
sustainGainUnfloored(velocity) ==
    (peakGainOf(velocity) * sustainLevel) \div MaxSustainPct

sustainGainOf(velocity) ==
    Max((peakGainOf(velocity) * sustainLevel) \div MaxSustainPct, MinGain)

\* triggerAttack without its cancelScheduledValues(now).
triggerAttackNoCancel(E, v, velocity) ==
    LET peakGain == peakGainOf(velocity)
        sustainGain == sustainGainOf(velocity)
        g == E.voices[v].voiceGain
        e1 == setValueAtTime(g.events, 0, NowMs)
        e2 == linearRampToValueAtTime(e1, peakGain, NowMs + attackTime)
        decayStartTime == NowMs + attackTime
        e3 == IF decayTime > DecayEpsMs
              THEN IF sustainGain >= ExpThreshold
                   THEN exponentialRampToValueAtTime(e2, sustainGain,
                            decayStartTime + decayTime)
                   ELSE linearRampToValueAtTime(e2, sustainGain,
                            decayStartTime + decayTime)
              ELSE e2
    IN [E EXCEPT !.voices[v].voiceGain =
           [g EXCEPT !.kind = "attack", !.end = NowMs + attackTime,
                     !.vel = velocity, !.events = e3]]

triggerAttack(E, v, velocity) ==
    LET peakGain == peakGainOf(velocity)
        sustainGain == sustainGainOf(velocity)
        g == E.voices[v].voiceGain
        e0 == cancelScheduledValues(g.events, NowMs)
        e1 == setValueAtTime(e0, 0, NowMs)
        e2 == linearRampToValueAtTime(e1, peakGain, NowMs + attackTime)
        decayStartTime == NowMs + attackTime
        e3 == IF decayTime > DecayEpsMs
              THEN IF sustainGain >= ExpThreshold
                   THEN exponentialRampToValueAtTime(e2, sustainGain,
                            decayStartTime + decayTime)
                   ELSE linearRampToValueAtTime(e2, sustainGain,
                            decayStartTime + decayTime)
              ELSE e2
    IN [E EXCEPT !.voices[v].voiceGain =
           [g EXCEPT !.kind = "attack", !.end = NowMs + attackTime,
                     !.vel = velocity, !.events = e3]]

\* triggerRelease whose ramp starts from the nominal peak of the note
\* instead of the value the gain has now.
triggerReleaseFromPeak(E, v) ==
    LET g == E.voices[v].voiceGain
        e0 == cancelScheduledValues(g.events, NowMs)
        e1 == setValueAtTime(e0, peakGainOf(g.vel), NowMs)
        e2 == exponentialRampToValueAtTime(e1, MinGain, NowMs + releaseTime)
        E1 == [E EXCEPT !.voices[v].voiceGain =
                  [g EXCEPT !.kind = "release", !.end = NowMs + releaseTime,
                            !.vel = 0, !.events = e2]]
        E2 == stopVoiceOscillator(E1, v)
    IN [E2 EXCEPT !.timers = E2.timers (+)
           SetToBag({[voice |-> v, due |-> NowMs + releaseTime + TimerSlackMs]})]

triggerRelease(E, v) ==
    LET g == E.voices[v].voiceGain
        currentGain == ValueAt(g.events, NowMs)
        e0 == cancelScheduledValues(g.events, NowMs)
        e1 == setValueAtTime(e0, currentGain, NowMs)
        e2 == exponentialRampToValueAtTime(e1, MinGain, NowMs + releaseTime)
        E1 == [E EXCEPT !.voices[v].voiceGain =
                  [g EXCEPT !.kind = "release", !.end = NowMs + releaseTime,
                            !.vel = 0, !.events = e2]]
        E2 == stopVoiceOscillator(E1, v)
    IN [E2 EXCEPT !.timers = E2.timers (+)
           SetToBag({[voice |-> v, due |-> NowMs + releaseTime + TimerSlackMs]})]

\* findFree that returns the last inactive voice of the pool.
findFreeLast(vs) ==
    LET free == {i \in VoiceIds : ~vs[i].active}
    IN IF free = {} THEN NoVoice
       ELSE CHOOSE i \in free : \A j \in free : i >= j

\* voices.find(v => !v.active): the first inactive voice, NoVoice if none.
findFree(vs) ==
    LET free == {i \in VoiceIds : ~vs[i].active}
    IN IF free = {} THEN NoVoice
       ELSE CHOOSE i \in free : \A j \in free : i <= j

\* reduceOldest with <= for <: among equally old voices the last one wins.
RECURSIVE reduceOldestLast(_, _, _)
reduceOldestLast(vs, i, oldest) ==
    IF i >= MAX_VOICES THEN oldest
    ELSE reduceOldestLast(vs, i + 1,
            IF vs[i].noteStartTime <= vs[oldest].noteStartTime THEN i ELSE oldest)

\* voices.reduce((oldest, current) =>
\*     current.noteStartTime < oldest.noteStartTime ? current : oldest)
RECURSIVE reduceOldest(_, _, _)
reduceOldest(vs, i, oldest) ==
    IF i >= MAX_VOICES THEN oldest
    ELSE reduceOldest(vs, i + 1,
            IF vs[i].noteStartTime < vs[oldest].noteStartTime THEN i ELSE oldest)

\* allocateVoice that, with no inactive Voice, adds a new Voice to the pool
\* instead of stealing one.
allocateVoiceGrowPool(E) ==
    LET freeVoice == findFree(E.voices)
        id == Cardinality(DOMAIN E.voices)
    IN IF freeVoice # NoVoice
       THEN [eng |-> E, voice |-> freeVoice, kind |-> "free"]
       ELSE [eng |-> [E EXCEPT !.voices =
                        [i \in (DOMAIN E.voices) \cup {id} |->
                            IF i = id THEN createVoice(id) ELSE E.voices[i]]],
             voice |-> id, kind |-> "free"]

\* Result: the engine after allocateVoice and the voice it returned.
allocateVoice(E) ==
    LET freeVoice == findFree(E.voices)
        oldestVoice == reduceOldest(E.voices, 1, 0)
        f0 == E.voices[oldestVoice].frequency
    IN IF freeVoice # NoVoice
       THEN [eng |-> E, voice |-> freeVoice, kind |-> "free"]
       ELSE [eng |-> IF f0 # Null
                     THEN triggerRelease(
                            [E EXCEPT !.activeNotes = MapDelete(@, f0)],
                            oldestVoice)
                     ELSE E,
             voice |-> oldestVoice, kind |-> "steal"]

noteOnKind(E, frequency) ==
    IF frequency \in DOMAIN E.activeNotes THEN "retrigger"
    ELSE allocateVoice(E).kind

noteOnVoice(E, frequency) ==
    IF frequency \in DOMAIN E.activeNotes THEN E.activeNotes[frequency]
    ELSE allocateVoice(E).voice

\* noteOn without its re-trigger branch: every call allocates.
noteOnAlwaysAllocate(E, frequency, velocity) ==
    LET a == allocateVoice(E)
        v == a.voice
        E1 == [a.eng EXCEPT !.voices[v].active = TRUE,
                            !.voices[v].frequency = frequency,
                            !.voices[v].noteStartTime = now]
        E2 == startVoiceOscillator(E1, v, frequency)
        E3 == [E2 EXCEPT !.activeNotes = MapSet(@, frequency, v)]
    IN triggerAttack(E3, v, velocity)

\* noteOn whose re-trigger branch leaves noteStartTime as it was.
noteOnRetriggerKeepsStartTime(E, frequency, velocity) ==
    IF frequency \in DOMAIN E.activeNotes
    THEN LET v == E.activeNotes[frequency]
             E1 == stopVoiceOscillator(E, v)
             E2 == startVoiceOscillator(E1, v, frequency)
         IN triggerAttack(E2, v, velocity)
    ELSE LET a == allocateVoice(E)
             v == a.voice
             E1 == [a.eng EXCEPT !.voices[v].active = TRUE,
                                 !.voices[v].frequency = frequency,
                                 !.voices[v].noteStartTime = now]
             E2 == startVoiceOscillator(E1, v, frequency)
             E3 == [E2 EXCEPT !.activeNotes = MapSet(@, frequency, v)]
         IN triggerAttack(E3, v, velocity)

noteOn(E, frequency, velocity) ==
    IF frequency \in DOMAIN E.activeNotes
    THEN LET v == E.activeNotes[frequency]
             E1 == stopVoiceOscillator(E, v)
             E2 == startVoiceOscillator(E1, v, frequency)
             E3 == [E2 EXCEPT !.voices[v].noteStartTime = now]
         IN triggerAttack(E3, v, velocity)
    ELSE LET a == allocateVoice(E)
             v == a.voice
             E1 == [a.eng EXCEPT !.voices[v].active = TRUE,
                                 !.voices[v].frequency = frequency,
                                 !.voices[v].noteStartTime = now]
             E2 == startVoiceOscillator(E1, v, frequency)
             E3 == [E2 EXCEPT !.activeNotes = MapSet(@, frequency, v)]
         IN triggerAttack(E3, v, velocity)

\* noteOff that, for a frequency missing from the index, falls back to a
\* search of the pool by voice.frequency and releases what it finds.
noteOffByVoiceFrequency(E, frequency) ==
    IF frequency \in DOMAIN E.activeNotes
    THEN triggerRelease([E EXCEPT !.activeNotes = MapDelete(@, frequency)],
                        E.activeNotes[frequency])
    ELSE LET holders == {i \in VoiceIds : E.voices[i].frequency = frequency}
         IN IF holders = {} THEN E
            ELSE triggerRelease(E, CHOOSE i \in holders : \A j \in holders : i <= j)

\* noteOff that also cancels the pending automation of every Voice.
noteOffCancelsAll(E, frequency) ==
    IF frequency \notin DOMAIN E.activeNotes THEN E
    ELSE LET E1 == triggerRelease(
                     [E EXCEPT !.activeNotes = MapDelete(@, frequency)],
                     E.activeNotes[frequency])
         IN [E1 EXCEPT !.voices =
               [i \in DOMAIN E1.voices |->
                   IF i = E.activeNotes[frequency] THEN E1.voices[i]
                   ELSE [E1.voices[i] EXCEPT !.voiceGain.events =
                            cancelScheduledValues(@, NowMs)]]]

noteOff(E, frequency) ==
    IF frequency \notin DOMAIN E.activeNotes THEN E
    ELSE triggerRelease([E EXCEPT !.activeNotes = MapDelete(@, frequency)],
                        E.activeNotes[frequency])

\* activeNotes.forEach((voice, frequency) => this.noteOff(frequency))
RECURSIVE stopAll(_, _)
stopAll(E, fs) ==
    IF fs = {} THEN E
    ELSE LET f == CHOOSE x \in fs : \A y \in fs : x <= y
         IN stopAll(noteOff(E, f), fs \ {f})

getIsPlaying == DOMAIN activeNotes # {}
getActiveVoiceCount == Cardinality({i \in DOMAIN voices : voices[i].active})

\* Math.min(hi, x) alone: the lower limit is not applied.
ClampAbove(lo, hi, x) == IF x > hi THEN hi ELSE x

\* Math.max(lo, Math.min(hi, x))
Clamp(lo, hi, x) == IF x < lo THEN lo ELSE IF x > hi THEN hi ELSE x

\* ----------------------------------------------------------------- actions
SetEngine(E) ==
    /\ BagCardinality(E.timers) <= MaxTimers
    /\ voices' = E.voices
    /\ activeNotes' = E.activeNotes
    /\ timers' = E.timers

\* The engine takes no part in the store's and the hook's own state.
OutsideUnchanged == UNCHANGED <<store, hook, keyboard, mono>>

ParamsUnchanged ==
    /\ UNCHANGED <<currentWaveform, attackTime, decayTime, sustainLevel,
                   releaseTime, filterNode, sharedGains>>
    /\ OutsideUnchanged

NoteOn(frequency, velocity) ==
    /\ SetEngine(noteOn(Engine, frequency, velocity))
    /\ last' = [op |-> "noteOn", f |-> frequency,
                v |-> noteOnVoice(Engine, frequency),
                kind |-> noteOnKind(Engine, frequency)]
    /\ UNCHANGED now
    /\ ParamsUnchanged

NoteOff(frequency) ==
    /\ SetEngine(noteOff(Engine, frequency))
    /\ last' = [op |-> "noteOff", f |-> frequency,
                v |-> IF frequency \in DOMAIN activeNotes
                      THEN activeNotes[frequency] ELSE NoVoice,
                kind |-> IF frequency \in DOMAIN activeNotes
                         THEN "release" ELSE "noop"]
    /\ UNCHANGED now
    /\ ParamsUnchanged

Stop ==
    /\ SetEngine(stopAll(Engine, DOMAIN activeNotes))
    /\ last' = [op |-> "stop", f |-> Null, v |-> NoVoice, kind |-> "none"]
    /\ UNCHANGED now
    /\ ParamsUnchanged

\* The timer callback without its voice.frequency = null.
ReleaseTimerKeepsFrequency(v) ==
    \E t \in BagToSet(timers) :
        /\ t.voice = v
        /\ NowMs >= t.due
        /\ \A u \in BagToSet(timers) : t.due <= u.due
        /\ timers' = timers (-) SetToBag({t})
        /\ voices' = [voices EXCEPT ![v].active = FALSE]
        /\ last' = [op |-> "timer", f |-> Null, v |-> v, kind |-> "none"]
        /\ UNCHANGED <<activeNotes, now>>
        /\ ParamsUnchanged

\* The callback of the setTimeout in triggerRelease, for a timer of voice v.
\* Timers run in the order of their due times.
ReleaseTimer(v) ==
    \E t \in BagToSet(timers) :
        /\ t.voice = v
        /\ NowMs >= t.due
        /\ \A u \in BagToSet(timers) : t.due <= u.due
        /\ timers' = timers (-) SetToBag({t})
        /\ voices' = [voices EXCEPT ![v].active = FALSE,
                                    ![v].frequency = Null]
        /\ last' = [op |-> "timer", f |-> Null, v |-> v, kind |-> "none"]
        /\ UNCHANGED <<activeNotes, now>>
        /\ ParamsUnchanged

\* The audio clock advances.
Tick ==
    /\ now < MaxTime
    /\ now' = now + 1
    /\ last' = [op |-> "tick", f |-> Null, v |-> NoVoice, kind |-> "none"]
    /\ UNCHANGED <<voices, activeNotes, timers>>
    /\ ParamsUnchanged

\* The names updateParameter has a case for.
KnownParams ==
    {"cutoff", "resonance", "waveform", "filterType",
     "attack", "decay", "sustain", "release"}

\* The fields updateParameter reads and writes, as one value.
Settings ==
    [voices |-> voices, currentWaveform |-> currentWaveform,
     attackTime |-> attackTime, decayTime |-> decayTime,
     sustainLevel |-> sustainLevel, releaseTime |-> releaseTime,
     filterNode |-> filterNode]

\* A running generator of Voice i takes the waveform w.
retype(vs, i, w) ==
    IF vs[i].oscillator = NullOsc THEN vs[i]
    ELSE [vs[i] EXCEPT
            !.oscillator.type = w,
            !.voiceGain.inputs = (@ \ {vs[i].oscillator}) \cup
                                 {[vs[i].oscillator EXCEPT !.type = w]}]

\* updateParameter whose switch falls through to 'cutoff' for unknown names.
updateParameterFallThrough(S, param, value) ==
    CASE param = "resonance" -> [S EXCEPT !.filterNode.Q = value]
      [] param = "waveform" ->
            [S EXCEPT !.currentWaveform = value,
                      !.voices = [i \in DOMAIN S.voices |->
                                     retype(S.voices, i, value)]]
      [] param = "filterType" -> [S EXCEPT !.filterNode.type = value]
      [] param = "attack" ->
            [S EXCEPT !.attackTime = Clamp(0, MaxAttackDecayMs, value)]
      [] param = "decay" ->
            [S EXCEPT !.decayTime = Clamp(0, MaxAttackDecayMs, value)]
      [] param = "sustain" ->
            [S EXCEPT !.sustainLevel = Clamp(0, MaxSustainPct, value)]
      [] param = "release" ->
            [S EXCEPT !.releaseTime = Clamp(0, MaxReleaseMs, value)]
      [] OTHER -> [S EXCEPT !.filterNode.frequency = value]

\* updateParameter whose envelope cases also cancel the automation pending
\* on every Voice, so that the new value applies to the notes in flight.
updateParameterRewritesCurves(S, param, value) ==
    LET cut == [i \in DOMAIN S.voices |->
                   [S.voices[i] EXCEPT !.voiceGain.events =
                       cancelScheduledValues(@, NowMs)]]
    IN CASE param = "cutoff" -> [S EXCEPT !.filterNode.frequency = value]
         [] param = "resonance" -> [S EXCEPT !.filterNode.Q = value]
         [] param = "waveform" ->
               [S EXCEPT !.currentWaveform = value,
                         !.voices = [i \in DOMAIN S.voices |->
                                        retype(S.voices, i, value)]]
         [] param = "filterType" -> [S EXCEPT !.filterNode.type = value]
         [] param = "attack" ->
               [S EXCEPT !.attackTime = Clamp(0, MaxAttackDecayMs, value),
                         !.voices = cut]
         [] param = "decay" ->
               [S EXCEPT !.decayTime = Clamp(0, MaxAttackDecayMs, value),
                         !.voices = cut]
         [] param = "sustain" ->
               [S EXCEPT !.sustainLevel = Clamp(0, MaxSustainPct, value),
                         !.voices = cut]
         [] param = "release" ->
               [S EXCEPT !.releaseTime = Clamp(0, MaxReleaseMs, value),
                         !.voices = cut]
         [] OTHER -> S

updateParameter(S, param, value) ==
    CASE param = "cutoff" -> [S EXCEPT !.filterNode.frequency = value]
      [] param = "resonance" -> [S EXCEPT !.filterNode.Q = value]
      [] param = "waveform" ->
            [S EXCEPT !.currentWaveform = value,
                      !.voices = [i \in DOMAIN S.voices |->
                                     retype(S.voices, i, value)]]
      [] param = "filterType" -> [S EXCEPT !.filterNode.type = value]
      [] param = "attack" ->
            [S EXCEPT !.attackTime = Clamp(0, MaxAttackDecayMs, value)]
      [] param = "decay" ->
            [S EXCEPT !.decayTime = Clamp(0, MaxAttackDecayMs, value)]
      [] param = "sustain" ->
            [S EXCEPT !.sustainLevel = Clamp(0, MaxSustainPct, value)]
      [] param = "release" ->
            [S EXCEPT !.releaseTime = Clamp(0, MaxReleaseMs, value)]
      [] OTHER -> S

UpdateParameter(param, value) ==
    LET S == updateParameter(Settings, param, value)
    IN /\ voices' = S.voices
       /\ currentWaveform' = S.currentWaveform
       /\ attackTime' = S.attackTime
       /\ decayTime' = S.decayTime
       /\ sustainLevel' = S.sustainLevel
       /\ releaseTime' = S.releaseTime
       /\ filterNode' = S.filterNode
       /\ last' = [op |-> "updateParameter", f |-> Null, v |-> NoVoice,
                   kind |-> param, value |-> value]
       /\ UNCHANGED <<activeNotes, timers, now, sharedGains>>
       /\ OutsideUnchanged

\* The parameter updates the callers of this specification issue.
ParamInputs == {<<"release", 0>>, <<"volume", 1>>}

Next ==
    \/ \E f \in Freqs, vel \in Velocities : NoteOn(f, vel)
    \/ \E f \in Freqs : NoteOff(f)
    \/ Stop
    \/ \E v \in VoiceIds : ReleaseTimer(v)
    \/ Tick
    \/ \E inp \in ParamInputs : UpdateParameter(inp[1], inp[2])

Spec == Init /\ [][Next]_vars

\* ---- The engine under updates of the waveform, of the shared filter and of
\* an unknown name, between notes played at one clock time.
SettingInputs ==
    {<<"cutoff", 500>>, <<"resonance", 5>>, <<"waveform", "square">>,
     <<"filterType", "highpass">>, <<"volume", 1>>}

NextSettings ==
    \/ \E f \in Freqs, vel \in Velocities : NoteOn(f, vel)
    \/ \E f \in Freqs : NoteOff(f)
    \/ \E inp \in SettingInputs : UpdateParameter(inp[1], inp[2])

SpecSettings == Init /\ [][NextSettings]_vars

\* ---- The engine under updates of the envelope times and level, with
\* values below and above their ranges, around one note.
AdsrInputs ==
    {<<"attack", -1>>, <<"attack", 3000>>, <<"decay", -1>>, <<"decay", 3000>>,
     <<"sustain", -5>>, <<"sustain", 150>>,
     <<"release", -1>>, <<"release", 6000>>}

AdsrFreqs == {1}

NextAdsr ==
    \/ \E f \in AdsrFreqs, vel \in Velocities : NoteOn(f, vel)
    \/ \E f \in AdsrFreqs : NoteOff(f)
    \/ \E inp \in AdsrInputs : UpdateParameter(inp[1], inp[2])

SpecAdsr == Init /\ [][NextAdsr]_vars

\* ---- The envelope of one note under long and zero envelope times, so that
\* the clock stops inside the attack and the decay ramps, and under
\* velocities from 0 to 1.
EnvelopeInputs ==
    {<<"attack", 800>>, <<"decay", 800>>, <<"decay", 0>>, <<"sustain", 0>>}

EnvelopeVelocities == {0, 1, 100}

EnvelopeFreqs == {1}

NextEnvelope ==
    \/ \E f \in EnvelopeFreqs, vel \in EnvelopeVelocities : NoteOn(f, vel)
    \/ \E f \in EnvelopeFreqs : NoteOff(f)
    \/ \E v \in VoiceIds : ReleaseTimer(v)
    \/ Tick
    \/ \E inp \in EnvelopeInputs : UpdateParameter(inp[1], inp[2])

SpecEnvelope == Init /\ [][NextEnvelope]_vars

\* ---------------------------------------------------------------- store
\* The store of lib/stores/synthStore.ts drives one monophonic engine
\* (lib/audio/engines).  Of the engine it holds, the model keeps the note of
\* the running generator, the isPlaying flag and whether the output is
\* connected.  A store call yields the store it leaves and how it ended:
\* "returned", or "thrown" when an exception reaches the caller.  ok tells
\* whether the engine constructor succeeds (getAudioContext can throw).
\* The parameters a new engine starts with, of those the store keeps too:
\* a SubtractiveEngine has all eight, an FMEngine only attack and release.
\* Times are in ms and the sustain level in percent.
engineDefaults(type) ==
    IF type = "fm"
    THEN [attack |-> FmAttackMs, release |-> DefaultReleaseMs]
    ELSE [waveform |-> "sawtooth", cutoff |-> DefaultCutoff,
          resonance |-> DefaultQ, filterType |-> "lowpass",
          attack |-> DefaultAttackMs, decay |-> DefaultDecayMs,
          sustain |-> DefaultSustainPct, release |-> DefaultReleaseMs]

newEngine(type) ==
    [type |-> type, isPlaying |-> FALSE, frequency |-> Null,
     connected |-> TRUE, params |-> engineDefaults(type)]

\* updateParameter of the engine the store holds: the SubtractiveEngine
\* clamps the envelope values, the FMEngine stores attack and release as
\* given, and both ignore the names they have no case for.
engineUpdateParameter(e, param, value) ==
    IF e.type = "fm"
    THEN IF param \in {"attack", "release"}
         THEN [e EXCEPT !.params[param] = value]
         ELSE e
    ELSE CASE param \in {"cutoff", "resonance", "waveform", "filterType"} ->
                 [e EXCEPT !.params[param] = value]
           [] param \in {"attack", "decay"} ->
                 [e EXCEPT !.params[param] =
                              Clamp(0, MaxAttackDecayMs, value)]
           [] param = "sustain" ->
                 [e EXCEPT !.params[param] = Clamp(0, MaxSustainPct, value)]
           [] param = "release" ->
                 [e EXCEPT !.params[param] = Clamp(0, MaxReleaseMs, value)]
           [] OTHER -> e

engineStart(e, frequency) ==
    [e EXCEPT !.isPlaying = TRUE, !.frequency = frequency]

engineStop(e) ==
    IF e.frequency = Null THEN e
    ELSE [e EXCEPT !.isPlaying = FALSE, !.frequency = Null]

engineDisconnect(e) == [e EXCEPT !.connected = FALSE]

Returned(S) == [store |-> S, signal |-> "returned"]
Thrown(S) == [store |-> S, signal |-> "thrown"]

\* initializeEngine wrapped in a try/catch that drops the exception.
initializeEngineCatches(S, ok) ==
    IF ok THEN Returned([S EXCEPT !.engine = newEngine(S.engineType)])
    ELSE Returned(S)

initializeEngine(S, ok) ==
    IF ok THEN Returned([S EXCEPT !.engine = newEngine(S.engineType)])
    ELSE Thrown(S)

\* The lazy initialisation at the head of triggerNote and toggleNote.
lazyInitialize(S, ok) ==
    IF S.engine = NoEngine THEN initializeEngine(S, ok) ELSE Returned(S)

setEngineType(S, type, ok) ==
    LET stopped == IF S.engine # NoEngine /\ S.activeFrequency # Null
                   THEN engineStop(S.engine) ELSE S.engine
        old == IF stopped # NoEngine THEN engineDisconnect(stopped)
               ELSE stopped
    IN IF ok
       THEN Returned([S EXCEPT !.engineType = type,
                               !.engine = newEngine(type),
                               !.isPlaying = FALSE,
                               !.currentNote = Null,
                               !.activeFrequency = Null])
       ELSE Thrown([S EXCEPT !.engine = old])

triggerNote(S, frequency, velocity, ok) ==
    LET r == lazyInitialize(S, ok)
    IN IF r.signal = "thrown" \/ r.store.engine = NoEngine THEN r
       ELSE Returned([r.store EXCEPT
                         !.engine = engineStart(@, frequency),
                         !.isPlaying = TRUE,
                         !.currentNote = frequency])

releaseNote(S) ==
    IF S.engine = NoEngine THEN Returned(S)
    ELSE Returned([S EXCEPT !.engine = engineStop(@),
                            !.isPlaying = FALSE,
                            !.currentNote = Null])

\* toggleNote that reads activeFrequency again after stopping the note.
toggleNoteRereadsActive(S, frequency, ok) ==
    LET r == lazyInitialize(S, ok)
        S1 == IF frequency = Null \/ S.activeFrequency # Null
              THEN [r.store EXCEPT !.engine = engineStop(@),
                                   !.isPlaying = FALSE,
                                   !.currentNote = Null,
                                   !.activeFrequency = Null]
              ELSE r.store
        S2 == IF frequency # Null /\ S1.activeFrequency # frequency
              THEN [S1 EXCEPT !.engine = engineStart(@, frequency),
                              !.isPlaying = TRUE,
                              !.currentNote = frequency,
                              !.activeFrequency = frequency]
              ELSE S1
    IN IF r.signal = "thrown" \/ r.store.engine = NoEngine THEN r
       ELSE Returned(S2)

toggleNote(S, frequency, ok) ==
    LET r == lazyInitialize(S, ok)
        activeFrequency == S.activeFrequency
        S1 == IF frequency = Null \/ activeFrequency # Null
              THEN [r.store EXCEPT !.engine = engineStop(@),
                                   !.isPlaying = FALSE,
                                   !.currentNote = Null,
                                   !.activeFrequency = Null]
              ELSE r.store
        S2 == IF frequency # Null /\ activeFrequency # frequency
              THEN [S1 EXCEPT !.engine = engineStart(@, frequency),
                              !.isPlaying = TRUE,
                              !.currentNote = frequency,
                              !.activeFrequency = frequency]
              ELSE S1
    IN IF r.signal = "thrown" \/ r.store.engine = NoEngine THEN r
       ELSE Returned(S2)

setOctave(S, octave) ==
    LET S1 == IF S.activeFrequency # Null /\ S.engine # NoEngine
              THEN [S EXCEPT !.engine = engineStop(@),
                             !.isPlaying = FALSE,
                             !.currentNote = Null,
                             !.activeFrequency = Null]
              ELSE S
    IN Returned([S1 EXCEPT !.octave = octave])

\* updateCutoff, updateResonance, setWaveform, setFilterType, updateAttack,
\* updateDecay, updateSustain and updateRelease: the value goes to the
\* engine, if there is one, and into the store field of that name.
updateStoreParameter(S, param, value) ==
    Returned([S EXCEPT
                 !.engine = IF @ = NoEngine THEN @
                            ELSE engineUpdateParameter(@, param, value),
                 ![param] = value])

\* What a store call did about the engine constructor.
Construction(needed, ok) ==
    IF ~needed THEN "none" ELSE IF ok THEN "built" ELSE "failed"

EngineUnchanged ==
    UNCHANGED <<voices, activeNotes, timers, now, currentWaveform, attackTime,
                decayTime, sustainLevel, releaseTime, filterNode, sharedGains>>

\* A call of a store action: r is its result.
StoreCall(op, frequency, construction, r) ==
    /\ store' = r.store
    /\ last' = [op |-> op, f |-> frequency, v |-> NoVoice,
                kind |-> r.signal, value |-> construction]
    /\ EngineUnchanged

InitializeEngine(ok) ==
    /\ StoreCall("initializeEngine", Null, Construction(TRUE, ok),
                  initializeEngine(store, ok))
    /\ UNCHANGED <<hook, keyboard, mono>>

SetEngineType(type, ok) ==
    /\ StoreCall("setEngineType", Null, Construction(TRUE, ok),
                  setEngineType(store, type, ok))
    /\ UNCHANGED <<hook, keyboard, mono>>

TriggerNote(frequency, ok) ==
    /\ StoreCall("triggerNote", frequency,
                  Construction(store.engine = NoEngine, ok),
                  triggerNote(store, frequency, 1, ok))
    /\ UNCHANGED <<hook, keyboard, mono>>

ReleaseNote ==
    /\ StoreCall("releaseNote", Null, "none", releaseNote(store))
    /\ UNCHANGED <<hook, keyboard, mono>>

ToggleNote(frequency, ok) ==
    /\ StoreCall("toggleNote", frequency,
                  Construction(store.engine = NoEngine, ok),
                  toggleNote(store, frequency, ok))
    /\ UNCHANGED <<hook, keyboard, mono>>

SetOctave(octave) ==
    /\ StoreCall("setOctave", Null, "none", setOctave(store, octave))
    /\ UNCHANGED <<hook, keyboard, mono>>

UpdateStoreParameter(param, value) ==
    /\ StoreCall("updateParameter", Null, "none",
                 updateStoreParameter(store, param, value))
    /\ UNCHANGED <<hook, keyboard, mono>>

\* The store on its own: three notes, two octaves, both engine types, and an
\* engine constructor that may fail at any call.
StoreFreqs == {1, 2, 3}
Octaves == {DefaultOctave, DefaultOctave + 1}
EngineTypes == {"subtractive", "fm"}

NextStore ==
    \/ \E ok \in BOOLEAN : InitializeEngine(ok)
    \/ \E type \in EngineTypes, ok \in BOOLEAN : SetEngineType(type, ok)
    \/ \E f \in StoreFreqs, ok \in BOOLEAN : TriggerNote(f, ok)
    \/ ReleaseNote
    \/ \E f \in StoreFreqs \cup {Null}, ok \in BOOLEAN : ToggleNote(f, ok)
    \/ \E o \in Octaves : SetOctave(o)

SpecStore == Init /\ [][NextStore]_vars

\* The store driven by the on-screen keyboard, the octave buttons and the
\* engine switch only.
NextToggle ==
    \/ \E f \in StoreFreqs \cup {Null}, ok \in BOOLEAN : ToggleNote(f, ok)
    \/ \E o \in Octaves : SetOctave(o)
    \/ \E type \in EngineTypes, ok \in BOOLEAN : SetEngineType(type, ok)

SpecToggle == Init /\ [][NextToggle]_vars

\* Parameter updates, one value for each control, the envelope ones partly
\* out of range, with engines created lazily, explicitly or by a switch
\* of the engine type.
ParamUpdates ==
    {<<"cutoff", 500>>, <<"resonance", 5>>, <<"waveform", "square">>,
     <<"filterType", "highpass">>, <<"attack", 3000>>, <<"decay", 50>>,
     <<"sustain", 150>>, <<"release", 100>>}

NextParams ==
    \/ \E u \in ParamUpdates : UpdateStoreParameter(u[1], u[2])
    \/ \E ok \in BOOLEAN : InitializeEngine(ok)
    \/ \E type \in EngineTypes, ok \in BOOLEAN : SetEngineType(type, ok)
    \/ \E ok \in BOOLEAN : TriggerNote(1, ok)

SpecParams == Init /\ [][NextParams]_vars

\* ----------------------------------------------------------- keyboard hook
\* useKeyboardInput (hooks/useKeyboardInput.ts).  keyboard.down holds the
\* physical keys that are down; a key event carries the value e.key the
\* browser reports for the key, which depends on Shift and on the layout.
\* noteOn and noteOff are the callbacks the hook takes from the store: the
\* calls a handler makes are its output, kept in last.value.  A frequency
\* is represented by its semitone number above C0: getFrequency is
\* 16.35 * 2^(semitone / 12), which is one-to-one in the semitone.
PhysicalKeys == {"z", ",", "q", "shift"}

\* The entries of KEY_MAP for the keys of the model.
KEY_MAP ==
    [k \in {"z", ",", "q"} |->
        CASE k = "z" -> [note |-> 0, octaveOffset |-> 0]
          [] k = "," -> [note |-> 12, octaveOffset |-> 0]
          [] k = "q" -> [note |-> 0, octaveOffset |-> 1]]

\* The values of e.key a key can report while Shift is or is not down.
EventKeys(k, shifted) ==
    CASE k = "shift" -> {"Shift"}
      [] k = "z" -> IF shifted THEN {"Z"} ELSE {"z"}
      [] k = "q" -> IF shifted THEN {"Q"} ELSE {"q"}
      [] k = "," -> IF shifted THEN {"<", ","} ELSE {","}

toLowerCase(raw) ==
    CASE raw = "Shift" -> "shift"
      [] raw = "Z" -> "z"
      [] raw = "Q" -> "q"
      [] OTHER -> raw

getFrequency(octave, note, octaveOffset) == (octave + octaveOffset) * 12 + note

KeyFrequency(H, key) ==
    getFrequency(H.octave, KEY_MAP[key].note, KEY_MAP[key].octaveOffset)

\* The result of a handler: the refs it leaves and the calls it made.
Handled(H, on, off) == [hook |-> H, noteOn |-> on, noteOff |-> off]

handleKeyDown(H, raw) ==
    LET key == toLowerCase(raw)
    IN IF key = "shift"
       THEN Handled([H EXCEPT !.shiftHeld = TRUE], << >>, EmptyBag)
       ELSE IF key \in H.pressedKeys \/ key \notin DOMAIN KEY_MAP
       THEN Handled(H, << >>, EmptyBag)
       ELSE Handled([H EXCEPT !.pressedKeys = @ \cup {key}],
                    <<KeyFrequency(H, key)>>, EmptyBag)

\* handleKeyUp whose Shift branch leaves the sustained notes in the set.
handleKeyUpKeepsSustained(H, raw) ==
    LET key == toLowerCase(raw)
    IN IF key = "shift"
       THEN Handled([H EXCEPT !.shiftHeld = FALSE],
                    << >>, SetToBag(H.sustainedNotes))
       ELSE IF key \notin DOMAIN KEY_MAP
       THEN Handled(H, << >>, EmptyBag)
       ELSE IF H.shiftHeld
       THEN Handled([H EXCEPT !.pressedKeys = @ \ {key},
                              !.sustainedNotes = @ \cup {KeyFrequency(H, key)}],
                    << >>, EmptyBag)
       ELSE Handled([H EXCEPT !.pressedKeys = @ \ {key}],
                    << >>, SetToBag({KeyFrequency(H, key)}))

handleKeyUp(H, raw) ==
    LET key == toLowerCase(raw)
    IN IF key = "shift"
       THEN Handled([H EXCEPT !.shiftHeld = FALSE, !.sustainedNotes = {}],
                    << >>, SetToBag(H.sustainedNotes))
       ELSE IF key \notin DOMAIN KEY_MAP
       THEN Handled(H, << >>, EmptyBag)
       ELSE IF H.shiftHeld
       THEN Handled([H EXCEPT !.pressedKeys = @ \ {key},
                              !.sustainedNotes = @ \cup {KeyFrequency(H, key)}],
                    << >>, EmptyBag)
       ELSE Handled([H EXCEPT !.pressedKeys = @ \ {key}],
                    << >>, SetToBag({KeyFrequency(H, key)}))

\* The cleanup of the effect: the listeners go, the pressed keys are
\* forgotten and the sustained notes are released.
cleanup(H) ==
    Handled([H EXCEPT !.pressedKeys = {}, !.sustainedNotes = {}],
            << >>, SetToBag(H.sustainedNotes))

\* What a handler leaves in the variables: r is its result.
HookCall(op, raw, r) ==
    /\ hook' = r.hook
    /\ last' = [op |-> op, f |-> Null, v |-> NoVoice, kind |-> raw,
                value |-> [noteOn |-> r.noteOn, noteOff |-> r.noteOff]]
    /\ EngineUnchanged

\* The frequencies left sounding by the calls of a handler: those that got
\* a noteOn and no noteOff since.
Sounding(r) ==
    (keyboard.sounding \cup {r.noteOn[i] : i \in DOMAIN r.noteOn})
        \ BagToSet(r.noteOff)

\* Key k goes down, or repeats while it is held down.
KeyDown(k) ==
    \E raw \in EventKeys(k, "shift" \in keyboard.down) :
        LET r == handleKeyDown(hook, raw)
        IN /\ hook.mounted
           /\ k \in DOMAIN keyboard.noteOns =>
                 keyboard.noteOns[k] < MaxNoteOns
           /\ HookCall("keydown", raw, r)
           /\ keyboard' =
                 [down |-> keyboard.down \cup {k},
                  noteOns |-> IF r.noteOn # << >>
                              THEN [keyboard.noteOns EXCEPT ![k] = @ + 1]
                              ELSE keyboard.noteOns,
                  sounding |-> Sounding(r)]
           /\ UNCHANGED <<store, mono>>

\* Key k goes up.
KeyUp(k) ==
    \E raw \in EventKeys(k, "shift" \in keyboard.down \ {k}) :
        /\ hook.mounted
        /\ k \in keyboard.down
        /\ HookCall("keyup", raw, handleKeyUp(hook, raw))
        /\ keyboard' =
              [down |-> keyboard.down \ {k},
               noteOns |-> IF k \in DOMAIN keyboard.noteOns
                           THEN [keyboard.noteOns EXCEPT ![k] = 0]
                           ELSE keyboard.noteOns,
               sounding |-> Sounding(handleKeyUp(hook, raw))]
        /\ UNCHANGED <<store, mono>>

\* The octave of the store has changed: the effect is run again, its
\* cleanup first, and the new handlers compute with the new octave.
HookEffect ==
    /\ hook.mounted
    /\ hook.octave # store.octave
    /\ HookCall("effect", "",
                LET r == cleanup(hook)
                IN [r EXCEPT !.hook.octave = store.octave])
    /\ keyboard' = [keyboard EXCEPT !.sounding = Sounding(cleanup(hook))]
    /\ UNCHANGED <<store, mono>>

\* The component is unmounted: the cleanup runs and no event is handled
\* any more.
Unmount ==
    /\ hook.mounted
    /\ HookCall("unmount", "",
                LET r == cleanup(hook)
                IN [r EXCEPT !.hook.mounted = FALSE])
    /\ keyboard' = [keyboard EXCEPT !.sounding = Sounding(cleanup(hook))]
    /\ UNCHANGED <<store, mono>>

\* The hook under key events, octave changes of the store and unmounting.
NextHook ==
    \/ \E k \in PhysicalKeys : KeyDown(k)
    \/ \E k \in PhysicalKeys : KeyUp(k)
    \/ \E o \in Octaves : SetOctave(o)
    \/ HookEffect
    \/ Unmount

SpecHook == Init /\ [][NextHook]_vars

\* ------------------------------------------------- the monophonic engine
\* SubtractiveEngine of lib/audio/engines, with its oscillators told apart.
\* An oscillator is [frequency, connected, stopTimes]: whether it is
\* connected to the filter and the clock times of its stop(when) calls.  It
\* is audible while it is connected and no stop time has been reached.
Audible(M) ==
    {i \in DOMAIN M.oscs :
        /\ M.oscs[i].connected
        /\ \A t \in M.oscs[i].stopTimes : t > NowMs}

clearCleanup(M) ==
    IF M.cleanupTimeoutId = 0 THEN M
    ELSE [M EXCEPT !.timers = {t \in @ : t.osc # M.cleanupTimeoutId},
                   !.cleanupTimeoutId = 0]

monoStart(M, frequency) ==
    LET M1 == clearCleanup(M)
        M2 == IF M1.oscillator = 0 THEN M1
              ELSE [M1 EXCEPT !.oscs[M1.oscillator].connected = FALSE,
                              !.oscs[M1.oscillator].stopTimes = @ \cup {NowMs},
                              !.oscillator = 0]
    IN [M2 EXCEPT !.oscs = Append(@, [frequency |-> frequency,
                                      connected |-> TRUE,
                                      stopTimes |-> {}]),
                  !.oscillator = Len(M2.oscs) + 1,
                  !.isPlaying = TRUE]

monoStop(M) ==
    IF M.oscillator = 0 THEN M
    ELSE LET oscillatorToStop == M.oscillator
             M1 == clearCleanup(M)
         IN [M1 EXCEPT
                !.oscs[oscillatorToStop].stopTimes =
                    @ \cup {NowMs + DefaultReleaseMs},
                !.oscillator = 0,
                !.isPlaying = FALSE,
                !.timers = @ \cup {[osc |-> oscillatorToStop,
                                    due |-> NowMs + DefaultReleaseMs
                                            + TimerSlackMs]},
                !.cleanupTimeoutId = oscillatorToStop]

MonoCall(op, frequency, osc, M) ==
    /\ mono' = M
    /\ last' = [op |-> op, f |-> frequency, v |-> osc, kind |-> "none"]
    /\ EngineUnchanged
    /\ UNCHANGED <<store, hook, keyboard>>

MonoStart(frequency) ==
    /\ Len(mono.oscs) < MaxOscillators
    /\ MonoCall("start", frequency, mono.oscillator,
                monoStart(mono, frequency))

MonoStop ==
    /\ MonoCall("stop", Null, mono.oscillator, monoStop(mono))

\* The callback of the cleanup timer t scheduled by stop().
MonoCleanup ==
    \E t \in mono.timers :
        /\ NowMs >= t.due
        /\ MonoCall("cleanup", Null, t.osc,
                    [mono EXCEPT !.oscs[t.osc].connected = FALSE,
                                 !.cleanupTimeoutId = 0,
                                 !.timers = @ \ {t}])

MonoFreqs == {1, 2}

NextMono ==
    \/ \E f \in MonoFreqs : MonoStart(f)
    \/ MonoStop
    \/ MonoCleanup
    \/ Tick

SpecMono == Init /\ [][NextMono]_vars

\* ------------------------------------------------------------ properties
IndexVoices == {activeNotes[f] : f \in DOMAIN activeNotes}

\* A noteOn(f) step, seen from its pre-state.
NoteOnStep(f) == last'.op = "noteOn" /\ last'.f = f
AllVoicesActive == \A v \in VoiceIds : voices[v].active
StealStep(f) == NoteOnStep(f) /\ f \notin DOMAIN activeNotes /\ AllVoicesActive

\* C1: the frequency -> voice index never holds more than MAX_VOICES entries.
C1_IndexWithinCapacity == Cardinality(DOMAIN activeNotes) <= MAX_VOICES

\* C2: no Voice is the value of two different frequency keys of the index.
C2_NoVoiceUnderTwoKeys ==
    \A f \in DOMAIN activeNotes : \A g \in DOMAIN activeNotes :
        activeNotes[f] = activeNotes[g] => f = g

\* Voice v sounds f as a held note: active, assigned to f, and the last curve
\* scheduled on its gain is an attack (no release or steal since).
Held(v, f) ==
    /\ voices[v].active
    /\ voices[v].frequency = f
    /\ voices[v].voiceGain.kind = "attack"

\* C3: index consistency: f is a key of the index iff some Voice is active,
\* assigned to f and neither released nor stolen since it was last
\* (re-)triggered, and the entry for f points to exactly that Voice.
C3_IndexConsistency ==
    \A f \in Freqs :
        /\ (f \in DOMAIN activeNotes) <=> (\E v \in VoiceIds : Held(v, f))
        /\ f \in DOMAIN activeNotes => Held(activeNotes[f], f)

\* C4: a Voice's frequency is non-null iff the Voice is a value of the index.
C4_FrequencyIffIndexed ==
    \A v \in VoiceIds : (voices[v].frequency # Null) <=> (v \in IndexVoices)

\* C5: a noteOn(f) with f not in the index and every Voice active reassigns
\* the Voice with the smallest noteStartTime, the lowest id among equals.
C5_StealTakesOldest ==
    [][\A f \in Freqs : StealStep(f) =>
          LET w == activeNotes'[f]
          IN /\ \A u \in VoiceIds :
                    voices[w].noteStartTime <= voices[u].noteStartTime
             /\ \A u \in VoiceIds :
                    voices[u].noteStartTime = voices[w].noteStartTime => w <= u
             /\ voices'[w].frequency = f
             /\ voices'[w].active]_vars

\* A steal has just taken the last Voice of the pool (no tie: the first
\* Voice was (re-)triggered later than the stolen one).
C5_Witness ==
    /\ last.op = "noteOn" /\ last.kind = "steal"
    /\ last.v = MAX_VOICES - 1
    /\ activeNotes[last.f] = last.v
    /\ now > 0

\* C6: a steal changes only the stolen Voice: every other Voice keeps its
\* fields, its generator and its entry in the index.
C6_StealFrame ==
    [][\A f \in Freqs : StealStep(f) =>
          LET w == activeNotes'[f]
          IN \A u \in VoiceIds \ {w} :
                /\ voices'[u] = voices[u]
                /\ \A g \in DOMAIN activeNotes :
                      activeNotes[g] = u =>
                          g \in DOMAIN activeNotes' /\ activeNotes'[g] = u]_vars

\* C7: noteOn(f) with f in the index re-triggers the Voice mapped to f and
\* leaves the index, every active flag and frequency, the active-voice count
\* and the pending releases as they were; no other Voice is touched.
C7_RetriggerIdempotent ==
    [][\A f \in Freqs : (NoteOnStep(f) /\ f \in DOMAIN activeNotes) =>
          LET w == activeNotes[f]
          IN /\ activeNotes' = activeNotes
             /\ \A v \in VoiceIds :
                   /\ voices'[v].active = voices[v].active
                   /\ voices'[v].frequency = voices[v].frequency
             /\ getActiveVoiceCount' = getActiveVoiceCount
             /\ timers' = timers
             /\ \A v \in VoiceIds \ {w} : voices'[v] = voices[v]
             /\ voices'[w].noteStartTime = now
             /\ voices'[w].voiceGain.kind = "attack"
             /\ voices'[w].oscillator =
                    [type |-> currentWaveform, frequency |-> f]]_vars

\* A held note has just been re-triggered at a later clock time.
C7_Witness ==
    /\ last.op = "noteOn" /\ last.kind = "retrigger"
    /\ last.f \in DOMAIN activeNotes
    /\ voices[activeNotes[last.f]].active
    /\ now > 0

\* Voice v is in the release tail of f: released, still assigned to f, and
\* the timer of that release still pending.
Releasing(v, f) ==
    /\ voices[v].voiceGain.kind = "release"
    /\ voices[v].frequency = f
    /\ BagIn([voice |-> v, due |-> voices[v].voiceGain.end + TimerSlackMs],
             timers)

\* C8: a noteOn(f) issued while Voice V is in the release tail of f is
\* assigned to a Voice other than V.
C8_RepressTakesOtherVoice ==
    [][\A f \in Freqs : \A v \in VoiceIds :
          (Releasing(v, f) /\ NoteOnStep(f)) => activeNotes'[f] # v]_vars

\* C9: noteOff(f) with f not in the index changes no Voice, no index entry
\* and schedules no timer.
C9_NoteOffUnknownNoOp ==
    [][\A f \in Freqs :
          (last'.op = "noteOff" /\ last'.f = f /\ f \notin DOMAIN activeNotes)
              => UNCHANGED <<voices, activeNotes, timers>>]_vars

\* A redundant noteOff has just arrived for a note whose Voice is still in
\* its release tail.
C9_Witness ==
    /\ last.op = "noteOff" /\ last.kind = "noop"
    /\ \E v \in VoiceIds : Releasing(v, last.f)

\* C10: a Voice is active while its note is held, and after the release of
\* that note until the release delay has elapsed.
C10_ActiveUntilReleaseElapsed ==
    \A v \in VoiceIds :
        /\ voices[v].voiceGain.kind = "attack" => voices[v].active
        /\ (/\ voices[v].voiceGain.kind = "release"
            /\ NowMs < voices[v].voiceGain.end + TimerSlackMs)
               => voices[v].active

\* Every Voice of the pool sounds a held note that the index maps to it.
PoolFullyHeld ==
    \A v \in VoiceIds :
        \E g \in DOMAIN activeNotes : activeNotes[g] = v /\ Held(v, g)

\* noteOff(f) has been served at the present clock time by Voice v, which is
\* in its release tail, and every other Voice sounds a held, indexed note.
JustReleasedInFullPool(v, f) ==
    /\ Releasing(v, f)
    /\ voices[v].voiceGain.end = NowMs + releaseTime
    /\ f \notin DOMAIN activeNotes
    /\ \A u \in VoiceIds \ {v} :
          \E g \in DOMAIN activeNotes : activeNotes[g] = u /\ Held(u, g)

\* C11: the full-pool scenario.  With every Voice holding a note, the noteOn
\* of one more frequency reassigns the Voice whose note was pressed first;
\* and a noteOn(f) that follows the noteOff(f) at once, before any release
\* timer has fired, removes none of the other held notes from the index and
\* anchors the gain of the Voice it assigns to f at 0 at the time of the call.
C11_FullPoolScenario ==
    [][\A f \in Freqs : NoteOnStep(f) =>
          /\ (PoolFullyHeld /\ f \notin DOMAIN activeNotes) =>
                \A u \in VoiceIds :
                    voices[activeNotes'[f]].noteStartTime
                        <= voices[u].noteStartTime
          /\ \A v \in VoiceIds : JustReleasedInFullPool(v, f) =>
                /\ \A g \in DOMAIN activeNotes :
                      g \in DOMAIN activeNotes'
                          /\ activeNotes'[g] = activeNotes[g]
                /\ ValueAt(voices'[activeNotes'[f]].voiceGain.events,
                           NowMs) = 0]_vars

\* C12: getActiveVoiceCount() lies between 0 and MAX_VOICES in every state.
C12_ActiveCountWithinPool ==
    getActiveVoiceCount >= 0 /\ getActiveVoiceCount <= MAX_VOICES

\* A noteOn has just been served by stealing, with every Voice of the pool
\* counted active.
C12_Witness ==
    /\ last.op = "noteOn" /\ last.kind = "steal"
    /\ getActiveVoiceCount = MAX_VOICES

WaveformUpdate == last'.op = "updateParameter" /\ last'.kind = "waveform"

\* C13: updateParameter('waveform', w) makes w the engine's waveform, no
\* other operation changes it, and after every step each Voice that owns a
\* generator (kept through the update, or created by an allocating, stealing
\* or re-triggering noteOn since) has a generator of the engine's waveform.
C13_WaveformRebroadcast ==
    [][/\ IF WaveformUpdate THEN currentWaveform' = last'.value
                            ELSE currentWaveform' = currentWaveform
       /\ \A v \in VoiceIds :
             voices'[v].oscillator # NullOsc =>
                 voices'[v].oscillator.type = currentWaveform']_vars

\* After a waveform update, a noteOn has stolen or re-triggered a Voice while
\* another Voice still runs a generator: all of them have the new waveform.
C13_Witness ==
    /\ last.op = "noteOn" /\ last.kind \in {"steal", "retrigger"}
    /\ currentWaveform = "square"
    /\ \A v \in VoiceIds : voices[v].oscillator # NullOsc
    /\ \A v \in VoiceIds : voices[v].oscillator.type = "square"

\* C14: updateParameter with a name outside the eight known ones changes
\* nothing of the engine: envelope settings, waveform, filter, Voices, index
\* and timers stay as they were.
C14_UnknownParameterNoOp ==
    [][(last'.op = "updateParameter" /\ last'.kind \notin KnownParams) =>
          UNCHANGED <<voices, activeNotes, timers, now, currentWaveform,
                      attackTime, decayTime, sustainLevel, releaseTime,
                      filterNode>>]_vars

\* An unknown parameter has just been set on an engine that sounds notes and
\* whose filter and waveform had been changed before.
C14_Witness ==
    /\ last.op = "updateParameter" /\ last.kind \notin KnownParams
    /\ DOMAIN activeNotes # {}
    /\ filterNode.frequency # DefaultCutoff
    /\ currentWaveform = "square"

\* C20: the envelope settings stay in range: 0 <= attackTime <= 2 s,
\* 0 <= decayTime <= 2 s, 0 <= sustainLevel <= 1, 0 <= releaseTime <= 5 s.
C20_AdsrWithinRange ==
    /\ 0 <= attackTime /\ attackTime <= MaxAttackDecayMs
    /\ 0 <= decayTime /\ decayTime <= MaxAttackDecayMs
    /\ 0 <= sustainLevel /\ sustainLevel <= MaxSustainPct
    /\ 0 <= releaseTime /\ releaseTime <= MaxReleaseMs

\* A value below its range has just been given for one setting after values
\* above their ranges for two others: each sits on the limit it crossed.
C20_Witness ==
    /\ last.op = "updateParameter" /\ last.kind = "attack"
    /\ last.value < 0 /\ attackTime = 0
    /\ releaseTime = MaxReleaseMs
    /\ sustainLevel = MaxSustainPct

\* The time of the setValueAtTime that opens the last curve scheduled, and
\* the time of the last event of that curve.
CurveStart(events) ==
    LET i == CHOOSE k \in 1 .. Len(events) :
                 /\ events[k].type = "set"
                 /\ \A j \in (k + 1) .. Len(events) : events[j].type # "set"
    IN events[i].time
CurveEnd(events) == events[Len(events)].time

\* Voice v is inside the attack or the decay ramp of its note.
InAttackOrDecay(v) ==
    /\ voices[v].voiceGain.kind = "attack"
    /\ CurveStart(voices[v].voiceGain.events) < NowMs
    /\ NowMs < CurveEnd(voices[v].voiceGain.events)

ReleaseStep(f) ==
    last'.op = "noteOff" /\ last'.f = f /\ f \in DOMAIN activeNotes

\* C15: a noteOff(f) that arrives while the Voice of f is inside its attack
\* or decay ramp schedules a release that starts now at the value the gain has
\* now, keeps no attack or decay event from now on, and ramps exponentially
\* to the 0.001 floor at now + releaseTime.
C15_ReleaseFromCurrentValue ==
    [][\A f \in Freqs :
          (ReleaseStep(f) /\ InAttackOrDecay(activeNotes[f])) =>
             LET v == activeNotes[f]
                 old == voices[v].voiceGain.events
                 new == voices'[v].voiceGain.events
                 n == Len(new)
             IN /\ n >= 2
                /\ new[n - 1] = [type |-> "set", value |-> ValueAt(old, NowMs),
                                 time |-> NowMs]
                /\ new[n] = [type |-> "exp", value |-> MinGain,
                             time |-> NowMs + releaseTime]
                /\ \A i \in 1 .. (n - 2) : new[i].time < NowMs
                /\ ValueAt(new, NowMs + releaseTime) = MinGain]_vars

\* A note has just been released half-way up its attack ramp: the release
\* starts at a value strictly between 0 and the peak of the note.
C15_Witness ==
    /\ last.op = "noteOff" /\ last.kind = "release"
    /\ LET ev == voices[last.v].voiceGain.events
       IN /\ Len(ev) >= 3
          /\ ev[Len(ev) - 1].type = "set"
          /\ ev[Len(ev) - 1].time = NowMs
          /\ ev[Len(ev) - 1].value > 0
          /\ ev[Len(ev) - 1].value < peakGainOf(100)
          /\ ev[Len(ev) - 1].value > MinGain

\* C16: a note triggered while decayTime <= 0.001 s has its gain at the
\* sustain gain (peak * sustainLevel, at least 0.001) from the end of the
\* attack ramp on.
C16_ZeroDecayHoldsSustain ==
    [][\A f \in Freqs : (NoteOnStep(f) /\ decayTime <= DecayEpsMs) =>
          LET g == voices'[activeNotes'[f]].voiceGain
              peak == (g.vel * PeakScale) \div MAX_VOICES
              sustain == Max((peak * sustainLevel) \div MaxSustainPct, MinGain)
          IN /\ ValueAt(g.events, NowMs + attackTime) = sustain
             /\ ValueAt(g.events, NowMs + attackTime + TickMs) = sustain]_vars

\* C17, as stated: for every velocity and sustain level, attackTime > 0 and
\* decayTime > 0.001 s, the curve scheduled by triggerAttack rises strictly
\* over the attack (value at half the attack < value at its end = peak) and
\* has the value peak * sustainLevel at now + attackTime + decayTime.
C17_EnvelopeShapeAsStated ==
    [][\A f \in Freqs :
          (NoteOnStep(f) /\ attackTime > 0 /\ decayTime > DecayEpsMs) =>
             LET g == voices'[activeNotes'[f]].voiceGain
                 peak == (g.vel * PeakScale) \div MAX_VOICES
             IN /\ ValueAt(g.events, NowMs + attackTime \div 2)
                       < ValueAt(g.events, NowMs + attackTime)
                /\ ValueAt(g.events, NowMs + attackTime) = peak
                /\ ValueAt(g.events, NowMs + attackTime + decayTime)
                       = (peak * sustainLevel) \div MaxSustainPct]_vars

\* C17, amended: under the same conditions the curve starts at 0, reaches the
\* peak at the end of the attack, rises strictly over the attack when the
\* velocity is above 0, and has the value max(peak * sustainLevel, 0.001) at
\* now + attackTime + decayTime.
C17_EnvelopeShape ==
    [][\A f \in Freqs :
          (NoteOnStep(f) /\ attackTime > 0 /\ decayTime > DecayEpsMs) =>
             LET g == voices'[activeNotes'[f]].voiceGain
                 peak == (g.vel * PeakScale) \div MAX_VOICES
             IN /\ ValueAt(g.events, NowMs) = 0
                /\ g.vel > 0 =>
                      ValueAt(g.events, NowMs + attackTime \div 2)
                          < ValueAt(g.events, NowMs + attackTime)
                /\ ValueAt(g.events, NowMs + attackTime) = peak
                /\ ValueAt(g.events, NowMs + attackTime + decayTime)
                       = Max((peak * sustainLevel) \div MaxSustainPct,
                             MinGain)]_vars

\* A note has just been triggered at a velocity above 0 with sustainLevel 0
\* and a decay: the floor, not peak * sustainLevel, is the end of its decay.
C17_Witness ==
    /\ last.op = "noteOn"
    /\ sustainLevel = 0 /\ decayTime > DecayEpsMs /\ attackTime > 0
    /\ LET g == voices[last.v].voiceGain
       IN /\ g.vel > 0
          /\ Len(g.events) = 3
          /\ g.events[3].value = MinGain
          /\ g.events[2].value = peakGainOf(g.vel)

\* C18: the generator of a Voice released by noteOff(f) is still connected to
\* the Voice's gain after the call (and until the release ramp has ended).
C18_GeneratorOutlivesNoteOff ==
    [][\A f \in Freqs :
          (ReleaseStep(f) /\ voices[activeNotes[f]].oscillator # NullOsc) =>
             LET v == activeNotes[f]
             IN voices[v].oscillator \in voices'[v].voiceGain.inputs]_vars

\* C19: a noteOn that steals a Voice sounding a held note leaves the release
\* ramp of the stolen note scheduled on the Voice's gain, to its end at
\* now + releaseTime, and leaves the stolen note's generator connected.
C19_PoliteStealing ==
    [][\A f \in Freqs :
          LET w == reduceOldest(voices, 1, 0)
          IN (StealStep(f) /\ voices[w].voiceGain.kind = "attack"
                /\ voices[w].oscillator # NullOsc) =>
                /\ \E i \in 1 .. Len(voices'[w].voiceGain.events) :
                      voices'[w].voiceGain.events[i] =
                          [type |-> "exp", value |-> MinGain,
                           time |-> NowMs + releaseTime]
                /\ voices[w].oscillator \in voices'[w].voiceGain.inputs]_vars

AdsrParams == {"attack", "decay", "sustain", "release"}

\* C21: an update of attack, decay, sustain or release changes that stored
\* value only: the Voices (scheduled automation, active flag, frequency,
\* generator), the timers, the index and the other settings stay as they
\* were; the curves of the noteOn and noteOff calls that follow are laid out
\* with the values stored at the time of the call.
C21_AdsrUpdateFrame ==
    [][/\ (last'.op = "updateParameter" /\ last'.kind \in AdsrParams) =>
             /\ UNCHANGED <<voices, activeNotes, timers, currentWaveform,
                            filterNode, sharedGains>>
             /\ last'.kind # "attack" => attackTime' = attackTime
             /\ last'.kind # "decay" => decayTime' = decayTime
             /\ last'.kind # "sustain" => sustainLevel' = sustainLevel
             /\ last'.kind # "release" => releaseTime' = releaseTime
       /\ \A f \in Freqs :
             /\ NoteOnStep(f) =>
                   LET ev == voices'[activeNotes'[f]].voiceGain.events
                   IN \E i \in 1 .. Len(ev) :
                         ev[i] = [type |-> "lin",
                                  value |-> peakGainOf(
                                      voices'[activeNotes'[f]].voiceGain.vel),
                                  time |-> NowMs + attackTime]
             /\ ReleaseStep(f) =>
                   LET ev == voices'[activeNotes[f]].voiceGain.events
                   IN ev[Len(ev)] = [type |-> "exp", value |-> MinGain,
                                     time |-> NowMs + releaseTime]]_vars

\* The attack time has just been changed while a Voice carries an attack
\* curve laid out with the previous attack time.
C21_Witness ==
    /\ last.op = "updateParameter" /\ last.kind = "attack"
    /\ \E v \in VoiceIds :
          /\ voices[v].voiceGain.kind = "attack"
          /\ voices[v].active
          /\ voices[v].voiceGain.end # NowMs + attackTime

\* C22: noteOn and noteOff leave the shared stage (filter type, cutoff,
\* resonance, mixer and master gain) as it was, and change the gain
\* automation of no Voice other than the one that serves the call.
C22_SharedStageFrame ==
    [][last'.op \in {"noteOn", "noteOff"} =>
          /\ filterNode' = filterNode
          /\ sharedGains' = sharedGains
          /\ \A v \in VoiceIds \ {last'.v} :
                voices'[v].voiceGain = voices[v].voiceGain]_vars

\* A noteOn has just stolen a Voice, after the filter had been changed, while
\* the other Voices carry the curves of their own notes.
C22_Witness ==
    /\ last.op = "noteOn" /\ last.kind = "steal"
    /\ filterNode.frequency # DefaultCutoff
    /\ filterNode.type # "lowpass"
    /\ \A v \in VoiceIds \ {last.v} : voices[v].voiceGain.events # << >>

\* C26: the timer of an earlier release, firing after its Voice has been
\* given a new note (the last curve on the Voice's gain is an attack), leaves
\* the Voice's active flag, frequency and generator as they are.
C26_StaleTimerHarmless ==
    [][\A v \in VoiceIds :
          (last'.op = "timer" /\ last'.v = v
              /\ voices[v].voiceGain.kind = "attack") =>
             /\ voices'[v].active = voices[v].active
             /\ voices'[v].frequency = voices[v].frequency
             /\ voices'[v].oscillator = voices[v].oscillator]_vars

\* A Voice no call can reach any more: it is active, no index entry leads to
\* it and no release timer is pending for it.  noteOff only releases Voices
\* found through the index and a timer only clears its own Voice, so such a
\* Voice stays active while the notes still held are released and the
\* pending timers fire.
Hung(v) ==
    /\ voices[v].active
    /\ \A f \in DOMAIN activeNotes : activeNotes[f] # v
    /\ \A t \in BagToSet(timers) : t.voice # v

\* C27: no hung voices.  No Voice is ever hung, and once every note has
\* been released and every timer has fired (the index is empty and no timer
\* is pending) no Voice is active, has a frequency or owns a generator.
C27_NoHungVoices ==
    /\ \A v \in VoiceIds : ~Hung(v)
    /\ (DOMAIN activeNotes = {} /\ timers = EmptyBag) =>
          /\ getActiveVoiceCount = 0
          /\ \A v \in VoiceIds :
                voices[v].frequency = Null /\ voices[v].oscillator = NullOsc

\* C28: every live generator connected to a Voice's gain is the one the
\* Voice refers to, so each gain is fed by at most one generator.
C28_NoOrphanedGenerator ==
    \A v \in VoiceIds :
        /\ voices[v].voiceGain.inputs \subseteq {voices[v].oscillator}
        /\ Cardinality(voices[v].voiceGain.inputs) <= 1

FromNow(events) == SelectSeq(events, LAMBDA e : e.time >= NowMs)
BeforeNow(events) == SelectSeq(events, LAMBDA e : e.time < NowMs)

\* C29: after a noteOn (allocating, stealing or re-triggering) or a noteOff,
\* the automation of the Voice's gain from now on is the curve of that call
\* alone (0 now, the attack ramp and at most one decay ramp; or the current
\* value now and the release ramp), after the events that lie in the past.
C29_AutomationSuperseded ==
    [][\A f \in Freqs :
          /\ NoteOnStep(f) =>
                LET v == activeNotes'[f]
                    new == voices'[v].voiceGain.events
                    cur == FromNow(new)
                IN /\ BeforeNow(new) = BeforeNow(voices[v].voiceGain.events)
                   /\ new = BeforeNow(new) \o cur
                   /\ Len(cur) \in {2, 3}
                   /\ cur[1] = [type |-> "set", value |-> 0, time |-> NowMs]
                   /\ cur[2].type = "lin"
                   /\ cur[2].time = NowMs + attackTime
                   /\ Len(cur) = 3 =>
                         cur[3].time = NowMs + attackTime + decayTime
          /\ ReleaseStep(f) =>
                LET v == activeNotes[f]
                    new == voices'[v].voiceGain.events
                    cur == FromNow(new)
                IN /\ BeforeNow(new) = BeforeNow(voices[v].voiceGain.events)
                   /\ new = BeforeNow(new) \o cur
                   /\ Len(cur) = 2
                   /\ cur[1].type = "set" /\ cur[1].time = NowMs
                   /\ cur[2] = [type |-> "exp", value |-> MinGain,
                                time |-> NowMs + releaseTime]]_vars

\* A note has just been re-triggered while the ramps of its previous attack
\* were still ahead: only the start of the previous curve is left before the
\* new one.
C29_Witness ==
    /\ last.op = "noteOn" /\ last.kind = "retrigger" /\ now > 0
    /\ LET ev == voices[last.v].voiceGain.events
       IN /\ Len(ev) >= 4
          /\ ev[1].type = "set" /\ ev[1].time < NowMs
          /\ ev[2].type = "set" /\ ev[2].time = NowMs

\* C30: a noteOn(f) with f outside the index and some Voice inactive takes
\* the inactive Voice of the lowest id, releases and steals nothing (no
\* timer is started, no other Voice changes) and keeps every index entry.
C30_FreeVoiceAllocation ==
    [][\A f \in Freqs :
          (NoteOnStep(f) /\ f \notin DOMAIN activeNotes
              /\ ~AllVoicesActive) =>
             LET w == CHOOSE i \in VoiceIds :
                         /\ ~voices[i].active
                         /\ \A j \in VoiceIds : ~voices[j].active => i <= j
             IN /\ activeNotes'[f] = w
                /\ voices'[w].active /\ voices'[w].frequency = f
                /\ voices'[w].voiceGain.kind = "attack"
                /\ timers' = timers
                /\ \A u \in VoiceIds \ {w} : voices'[u] = voices[u]
                /\ \A g \in DOMAIN activeNotes :
                      g \in DOMAIN activeNotes'
                          /\ activeNotes'[g] = activeNotes[g]]_vars

\* A noteOn has just taken the second Voice as the first inactive one, while
\* the first Voice holds its note and another Voice is inactive too or the
\* pool ends there.
C30_Witness ==
    /\ last.op = "noteOn" /\ last.kind = "free" /\ last.v = 1
    /\ voices[0].active /\ voices[0].voiceGain.kind = "attack"
    /\ DOMAIN activeNotes # {last.f}

LazyCalls == {"triggerNote", "toggleNote"}

\* C23: when the engine constructor fails in the lazy initialisation of
\* triggerNote or toggleNote, the exception reaches the caller and the store
\* is left with no engine, isPlaying false, no current note and no active
\* frequency.
C23_ConstructionFailureSurfaced ==
    [][(last'.op \in LazyCalls /\ last'.value = "failed") =>
          /\ last'.kind = "thrown"
          /\ store'.engine = NoEngine
          /\ ~store'.isPlaying
          /\ store'.currentNote = Null
          /\ store'.activeFrequency = Null]_vars

\* toggleNote(f) has just run into a failing constructor, after the octave
\* had been changed and an earlier attempt had failed as well.
C23_Witness ==
    /\ last.op = "toggleNote" /\ last.value = "failed" /\ last.f # Null
    /\ store.octave # DefaultOctave
    /\ store.engine = NoEngine

MusicalKeyUp ==
    /\ last'.op = "keyup"
    /\ toLowerCase(last'.kind) \in DOMAIN KEY_MAP

C25_KeyRepeatPrevention ==
    \A k \in DOMAIN keyboard.noteOns : keyboard.noteOns[k] <= 1

RetriggerStep(f) == NoteOnStep(f) /\ f \in DOMAIN activeNotes

\* C31: a re-trigger stamps the Voice with the current clock time, which
\* makes it the most recently triggered Voice of the pool, and a steal never
\* takes a Voice while another Voice has an earlier noteStartTime.
C31_RetriggerRanksNewest ==
    [][\A f \in Freqs :
          /\ RetriggerStep(f) =>
                LET w == activeNotes[f]
                IN /\ voices'[w].noteStartTime = now
                   /\ \A u \in VoiceIds :
                         voices'[u].noteStartTime <= voices'[w].noteStartTime
          /\ StealStep(f) =>
                ~\E u \in VoiceIds :
                    voices[u].noteStartTime
                        < voices[activeNotes'[f]].noteStartTime]_vars

\* A steal has just passed over a Voice that had been re-triggered at this
\* clock time (its gain carries the start of the first attack and, after it,
\* the attack of the re-trigger) and taken the other one.
C31_Witness ==
    /\ last.op = "noteOn" /\ last.kind = "steal" /\ now > 0
    /\ \E u \in VoiceIds \ {last.v} :
          LET ev == voices[u].voiceGain.events
          IN /\ voices[u].noteStartTime = now
             /\ voices[u].voiceGain.kind = "attack"
             /\ Len(ev) >= 4
             /\ ev[1] = [type |-> "set", value |-> 0, time |-> 0]
             /\ \E i \in 2 .. Len(ev) :
                   /\ ev[i] = [type |-> "set", value |-> 0, time |-> NowMs]
                   /\ \A j \in 1 .. i - 1 : ev[j].type # "set" \/ j = 1

\* C32: a Voice is active exactly when it has a frequency.
C32_ActiveIffFrequency ==
    \A v \in VoiceIds : voices[v].active <=> voices[v].frequency # Null

\* A release timer has just cleared one Voice while another one is active
\* with the frequency of its note.
C32_Witness ==
    /\ last.op = "timer"
    /\ ~voices[last.v].active /\ voices[last.v].frequency = Null
    /\ \E u \in VoiceIds : voices[u].active /\ voices[u].frequency # Null

\* The release timers pending for Voice v.
TimersOf(tm, v) ==
    BagCardinality([t \in {x \in BagToSet(tm) : x.voice = v} |-> tm[t]])

\* C33: stop() empties the index, leaves getIsPlaying() false and schedules
\* exactly one release for every Voice the index led to.
C33_StopReleasesAll ==
    [][last'.op = "stop" =>
          /\ DOMAIN activeNotes' = {}
          /\ \A v \in IndexVoices :
                /\ voices'[v].voiceGain.kind = "release"
                /\ TimersOf(timers', v) = TimersOf(timers, v) + 1
          /\ \A v \in VoiceIds \ IndexVoices :
                TimersOf(timers', v) = TimersOf(timers, v)]_vars

\* C34: no stuck notes from the keyboard.  Whenever every key is up, Shift
\* included, or the hook has been unmounted, no frequency is left with a
\* noteOn that no noteOff has followed.
C34_NoStuckNotes ==
    (keyboard.down = {} \/ ~hook.mounted) => keyboard.sounding = {}

\* C35: the keyup of Shift calls noteOff for no frequency whose key is down
\* and counted as pressed at that moment.
C35_ShiftSparesHeldKeys ==
    [][(last'.op = "keyup" /\ last'.kind = "Shift") =>
          \A k \in keyboard.down \cap hook.pressedKeys :
              ~BagIn(KeyFrequency(hook, k), last'.value.noteOff)]_vars

ToggleStep == last'.op = "toggleNote" /\ last'.kind = "returned"

\* C36: under toggleNote, setOctave and setEngineType the store has
\* isPlaying exactly when activeFrequency is set, and currentNote equal to
\* activeFrequency; toggleNote(f) on the active frequency f stops the note
\* and starts none; toggleNote(g) while another frequency is active leaves g
\* playing as the active frequency.
C36_ToggleState ==
    [][/\ store'.isPlaying <=> store'.activeFrequency # Null
       /\ store'.currentNote = store'.activeFrequency
       /\ (ToggleStep /\ last'.f # Null
              /\ store.activeFrequency = last'.f) =>
             /\ ~store'.isPlaying /\ store'.activeFrequency = Null
             /\ ~store'.engine.isPlaying
             /\ store'.engine.frequency = Null
       /\ (ToggleStep /\ last'.f # Null
              /\ store.activeFrequency \notin {Null, last'.f}) =>
             /\ store'.isPlaying /\ store'.activeFrequency = last'.f
             /\ store'.engine.isPlaying
             /\ store'.engine.frequency = last'.f]_vars

\* toggleNote(f) has just stopped the note f it was called for, in another
\* octave than the initial one.
C36_Witness ==
    /\ last.op = "toggleNote" /\ last.kind = "returned" /\ last.f # Null
    /\ store.engine # NoEngine
    /\ store.activeFrequency = Null /\ ~store.isPlaying
    /\ store.octave # DefaultOctave

\* C37: after setOctave the store has isPlaying false and the engine plays
\* no note, whichever store actions came before.
C37_SetOctaveStops ==
    [][last'.op = "setOctave" =>
          ~store'.isPlaying /\ ~store'.engine.isPlaying]_vars

\* C38: while the store holds an engine, every parameter the engine has
\* (cutoff, resonance, waveform, filterType, attack, decay, sustain,
\* release) has in the engine the value of the store field of its name.
C38_StoreEngineAgree ==
    store.engine # NoEngine =>
        \A param \in DOMAIN store.engine.params :
            store.engine.params[param] = store[param]

\* C39: in the monophonic engine at most one cleanup timer is pending,
\* isPlaying is true exactly when the engine refers to an oscillator, a
\* cleanup timer disconnects the oscillator its stop() released and no other
\* (never the one the engine refers to), a start() while the engine refers
\* to an oscillator disconnects and stops that oscillator, and at most one
\* oscillator is audible at any time.
C39_MonophonicEngine ==
    [][/\ Cardinality(mono'.timers) <= 1
       /\ mono'.isPlaying <=> mono'.oscillator # 0
       /\ last'.op = "cleanup" =>
             /\ last'.v # mono.oscillator
             /\ \A i \in DOMAIN mono.oscs :
                   i # last'.v => mono'.oscs[i] = mono.oscs[i]
       /\ (last'.op = "start" /\ mono.oscillator # 0) =>
             /\ ~mono'.oscs[mono.oscillator].connected
             /\ NowMs \in mono'.oscs[mono.oscillator].stopTimes
       /\ Cardinality(Audible(mono')) <= 1]_vars

====
